---- MODULE Spec2Model ----
(***************************************************************************)
(* Satellite_timelapse: main.py (geocode, then generate_timelapse) and     *)
(* src/timelapse.py (generate_timelapse: backend init, region, composite   *)
(* fetch, moving-median smoothing, render/download, text overlay, MP4      *)
(* transcode).                                                             *)
(*                                                                         *)
(* Timestamps ('system:time_start', epoch milliseconds in the program) are *)
(* counted in whole UTC days since 1970-01-01 (1 unit = 86 400 000 ms);    *)
(* every timestamp the model draws is a midnight, so ms / 1000.0 and the   *)
(* calendar conversion lose nothing.  A "median of a subset" is kept as    *)
(* the set of member timestamps the reducer is applied to.                 *)
(***************************************************************************)
EXTENDS Integers, Sequences, FiniteSets, TLC

\* ---------------------------------------------------------------- bounds
MaxLen == 5

\* ------------------------------------------------------- program values
NoneVal == 0 - 1
DefaultDuration == 100
VerticalW == 720
VerticalH == 1280
AspectNum == 16
AspectDen == 9

NoFile == <<>>
OutGif == "timelapse_Udine.gif"
NoPath == ""
PlaceName == "Udine, Italy"

CliFrequencies == {"year", "quarter", "month"}
AnyFrequencies == CliFrequencies \cup {"week"}
Widths == {9, 100, 500, 768}
StartYears == {1999, 2000}
DurationPatterns == {"uniform", "varying", "none"}

\* ------------------------------------------------------ calendar (UTC)
IsLeap(y) == (y % 4 = 0 /\ y % 100 # 0) \/ y % 400 = 0

DaysInMonth(y, m) ==
    IF m = 2 THEN (IF IsLeap(y) THEN 29 ELSE 28)
    ELSE IF m \in {4, 6, 9, 11} THEN 30 ELSE 31

\* proleptic Gregorian date -> days since 1970-01-01
DaysFromCivil(y, m, d) ==
    LET yy  == IF m <= 2 THEN y - 1 ELSE y
        era == yy \div 400
        yoe == yy - era * 400
        mp  == IF m > 2 THEN m - 3 ELSE m + 9
        doy == (153 * mp + 2) \div 5 + d - 1
        doe == yoe * 365 + yoe \div 4 - yoe \div 100 + doy
    IN  era * 146097 + doe - 719468

\* days since 1970-01-01 -> [year, month, day]
CivilFromDays(z) ==
    LET zz  == z + 719468
        era == zz \div 146097
        doe == zz - era * 146097
        yoe == (doe - doe \div 1460 + doe \div 36524 - doe \div 146096) \div 365
        doy == doe - (365 * yoe + yoe \div 4 - yoe \div 100)
        mp  == (5 * doy + 2) \div 153
        d   == doy - (153 * mp + 2) \div 5 + 1
        m   == IF mp < 10 THEN mp + 3 ELSE mp - 9
        y   == yoe + era * 400 + (IF m <= 2 THEN 1 ELSE 0)
    IN  [year |-> y, month |-> m, day |-> d]

\* ee.Date.advance(delta, unit): calendar arithmetic, day clamped to the month
Advance(t, delta, unit) ==
    LET c   == CivilFromDays(t)
        mi  == c.year * 12 + (c.month - 1) + (IF unit = "year" THEN 12 * delta ELSE delta)
        y   == mi \div 12
        m   == (mi % 12) + 1
        dim == DaysInMonth(y, m)
        d   == IF c.day > dim THEN dim ELSE c.day
    IN  DaysFromCivil(y, m, d)

\* -------------------------------------------------------- text helpers
Digit(d) == <<"0", "1", "2", "3", "4", "5", "6", "7", "8", "9">>[d + 1]

RECURSIVE Decimal(_)
Decimal(n) == IF n < 10 THEN Digit(n) ELSE Decimal(n \div 10) \o Digit(n % 10)

\* strftime('%Y') for a four-digit year, strftime('%m')
Pad2(n) == Digit((n \div 10) % 10) \o Digit(n % 10)
Pad4(n) == Pad2(n \div 100) \o Pad2(n % 100)

\* ------------------------------------------------------ Cadence Policy
\* timelapse.py 71-78: smoothing half-window and its unit
WindowPolicy(freq) ==
    IF freq = "year" THEN [window_size |-> 1, unit |-> "year"]
    ELSE IF freq = "quarter" THEN [window_size |-> 4, unit |-> "month"]
    ELSE IF freq = "month" THEN [window_size |-> 2, unit |-> "month"]
    ELSE [window_size |-> 1, unit |-> "year"]

NoWindow == [window_size |-> 0, unit |-> "none"]

\* Label with the quarter taken from the month number without the -1
LabelQuarterOffByOne(ms, freq) ==
    IF ms = NoneVal THEN ""
    ELSE LET dt == CivilFromDays(ms)
         IN  IF freq = "year" THEN Pad4(dt.year)
             ELSE IF freq = "quarter"
                  THEN Decimal(dt.year) \o " Q" \o Decimal(dt.month \div 3 + 1)
                  ELSE Pad4(dt.year) \o "-" \o Pad2(dt.month)

\* timelapse.py 134-144: one label per entry of dates_ms
Label(ms, freq) ==
    IF ms = NoneVal THEN ""
    ELSE LET dt == CivilFromDays(ms)
         IN  IF freq = "year" THEN Pad4(dt.year)
             ELSE IF freq = "quarter"
                  THEN Decimal(dt.year) \o " Q" \o Decimal((dt.month - 1) \div 3 + 1)
                  ELSE Pad4(dt.year) \o "-" \o Pad2(dt.month)

\* ---------------------------------------------------- Temporal Smoother
\* ee.ImageCollection.filterDate(start, end): start inclusive, end exclusive
filterDate(coll, start, end) ==
    SelectSeq(coll, LAMBDA t : start <= t /\ t < end)

\* smooth_func that leaves the median tagged with the window start
smooth_func_window_tag(image, coll, freq) ==
    LET w         == WindowPolicy(freq)
        d         == image
        start_win == Advance(d, 0 - w.window_size, w.unit)
        end_win   == Advance(d, w.window_size, w.unit)
        subset    == filterDate(coll, start_win, end_win)
    IN  [time_start |-> start_win, median_of |-> subset]

\* timelapse.py 82-88; an image is identified by its 'system:time_start'
smooth_func(image, coll, freq) ==
    LET w         == WindowPolicy(freq)
        d         == image
        start_win == Advance(d, 0 - w.window_size, w.unit)
        end_win   == Advance(d, w.window_size, w.unit)
        subset    == filterDate(coll, start_win, end_win)
    IN  [time_start |-> image, median_of |-> subset]

\* timelapse.py 90: collection.map(smooth_func)
MapSmooth(coll, freq) ==
    [i \in 1..Len(coll) |-> smooth_func(coll[i], coll, freq)]

\* geemap.landsat_timeseries: one composite per period, stamped with the
\* period's first day, from January 1st of start_year
PeriodMonths(freq) ==
    IF freq = "quarter" THEN 3 ELSE IF freq = "month" THEN 1 ELSE 12

Timeseries(start_year, n, freq) ==
    [i \in 1..n |->
        Advance(DaysFromCivil(start_year, 1, 1), (i - 1) * PeriodMonths(freq), "month")]

\* -------------------------------------------------------- Region Builder
\* Python int(x): truncation toward zero, here of the quotient a / b, b > 0
IntTrunc(a, b) == IF a >= 0 THEN a \div b ELSE 0 - ((0 - a) \div b)

\* fallback dimensions with round() in place of int()
FallbackDimsRounded(w) ==
    <<w, (2 * w * AspectNum + AspectDen) \div (2 * AspectDen)>>

\* timelapse.py 51: [width, int(width * 16/9)]
FallbackDims(w) == <<w, IntTrunc(w * AspectNum, AspectDen)>>

\* ------------------------------------------------------ video artifacts
Fps == 10

FrameDuration(pattern, i) ==
    IF pattern = "uniform" THEN 1000 \div Fps
    ELSE IF pattern = "varying" THEN 1000 \div Fps + 10 * i
    ELSE NoneVal

\* the GIF the backend renders: one frame per smoothed composite, in order
RenderedGif(smoothed, pattern) ==
    [i \in 1..Len(smoothed) |->
        [src |-> smoothed[i].time_start, duration |-> FrameDuration(pattern, i),
         text_year |-> "", text_loc |-> ""]]

\* timelapse.py 180-223: date top-right and place bottom-left, each drawn
\* only when its text is non-empty
Annotate(frame, text_year, text_loc) ==
    [frame EXCEPT !.text_year = text_year, !.text_loc = text_loc]

\* timelapse.py 226-232: every frame is written with the one duration read
\* from im.info after the loop, i.e. with im positioned on the last frame
SavedGif(fr, im) ==
    LET last == im[Len(im)].duration
        dur  == IF last = NoneVal THEN DefaultDuration ELSE last
    IN  [i \in 1..Len(fr) |-> [fr[i] EXCEPT !.duration = dur]]

\* collection.aggregate_array('system:time_start').getInfo(): the time
\* stamps in order; an image without the property yields null or is left out
BackendDates(coll) ==
    {coll}
    \cup {[coll EXCEPT ![k] = NoneVal] : k \in 1..Len(coll)}
    \cup {SubSeq(coll, 1, k) : k \in 0..(Len(coll) - 1)}

\* ================================================================ state
VARIABLES
    pc,                  \* position in main / generate_timelapse
    frequency, width, vertical,      \* parsed arguments
    roi, video_dims,     \* Region Builder results
    collection,          \* fetched composites (their time_start), in order
    window,              \* window_size, unit
    smoothed_collection, \* result of collection.map(smooth_func)
    gif,                 \* content of the file at out_gif (NoFile if absent)
    rendered,            \* what download_ee_video wrote to out_gif
    mp4,                 \* state of the file at out_mp4
    dates_ms, dates,     \* overlay: backend timestamps and derived labels
    frames,              \* overlay: annotated frames collected so far
    log,                 \* kinds of messages printed
    calls,               \* backend calls and pipeline stages entered
    ffmpeg,              \* what the transcode stage found
    raised_in,           \* where the overlay stage raised, if it did
    returned             \* value returned by generate_timelapse

vars == <<pc, frequency, width, vertical, roi, video_dims, collection, window,
          smoothed_collection, gif, rendered, mp4, dates_ms, dates, frames,
          log, calls, ffmpeg, raised_in, returned>>

\* state right after parse_args (main.py 20), in a directory without a
\* primary artifact and with or without an MP4 left by an earlier run
Init ==
    /\ pc = "geocode"
    /\ frequency \in CliFrequencies
    /\ width \in Widths
    /\ vertical \in BOOLEAN
    /\ roi = "unset"
    /\ video_dims = <<>>
    /\ collection = <<>>
    /\ window = NoWindow
    /\ smoothed_collection = <<>>
    /\ gif = NoFile
    /\ rendered = NoFile
    /\ mp4 \in {"absent", "stale"}
    /\ dates_ms = <<>>
    /\ dates = <<>>
    /\ frames = <<>>
    /\ log = {}
    /\ calls = {}
    /\ ffmpeg = "not_probed"
    /\ raised_in = "nowhere"
    /\ returned = NoPath

\* ============================================================== main.py
\* Geocode without the early returns: a failure is printed and main goes on
GeocodeFallsThrough ==
    /\ pc = "geocode"
    /\ \E outcome \in {"found", "not_found", "import_error", "error"} :
          IF outcome = "found"
          THEN log' = log \cup {"found_location"}
          ELSE log' = log \cup {"geocode_failed"}
    /\ pc' = "init"
    /\ UNCHANGED <<frequency, width, vertical, roi, video_dims, collection,
                   window, smoothed_collection, gif, rendered, mp4, dates_ms,
                   dates, frames, calls, ffmpeg, raised_in, returned>>

\* main.py 25-43: a missing place, a missing geopy or a geocoder error
\* prints a message and returns
Geocode ==
    /\ pc = "geocode"
    /\ \E outcome \in {"found", "not_found", "import_error", "error"} :
          IF outcome = "found"
          THEN /\ pc' = "init"
               /\ log' = log \cup {"found_location"}
          ELSE /\ pc' = "exit"
               /\ log' = log \cup {"geocode_failed"}
    /\ UNCHANGED <<frequency, width, vertical, roi, video_dims, collection,
                   window, smoothed_collection, gif, rendered, mp4, dates_ms,
                   dates, frames, calls, ffmpeg, raised_in, returned>>

\* ========================================================= timelapse.py
\* timelapse.py 12-27 with main.py 53-56: a failed ee.Initialize is printed,
\* re-raised, and caught and printed by main
Initialize ==
    /\ pc = "init"
    /\ calls' = calls \cup {"ee.Initialize"}
    /\ \E ok \in BOOLEAN :
          IF ok
          THEN /\ pc' = "region"
               /\ log' = log \cup {"ee_initialized"}
          ELSE /\ pc' = "exit"
               /\ log' = log \cup {"ee_init_failed", "pipeline_failed"}
    /\ UNCHANGED <<frequency, width, vertical, roi, video_dims, collection,
                   window, smoothed_collection, gif, rendered, mp4, dates_ms,
                   dates, frames, ffmpeg, raised_in, returned>>

\* timelapse.py 30-55
BuildRegion ==
    /\ pc = "region"
    /\ IF vertical
       THEN /\ calls' = calls \cup {"bounds.getInfo"}
            /\ \E ok \in BOOLEAN :
                  IF ok
                  THEN /\ roi' = "vertical"
                       /\ video_dims' = <<VerticalW, VerticalH>>
                       /\ log' = log
                  ELSE /\ roi' = "standard"
                       /\ video_dims' = FallbackDims(width)
                       /\ log' = log \cup {"vertical_roi_error"}
       ELSE /\ roi' = "standard"
            /\ video_dims' = <<width>>
            /\ UNCHANGED <<calls, log>>
    /\ pc' = "fetch"
    /\ UNCHANGED <<frequency, width, vertical, collection, window,
                   smoothed_collection, gif, rendered, mp4, dates_ms, dates,
                   frames, ffmpeg, raised_in, returned>>

\* timelapse.py 61-68 with main.py 55-56
Fetch ==
    /\ pc = "fetch"
    /\ calls' = calls \cup {"landsat_timeseries"}
    /\ \E ok \in BOOLEAN :
          IF ok
          THEN /\ \E sy \in StartYears, n \in 1..MaxLen :
                     collection' = Timeseries(sy, n, frequency)
               /\ pc' = "smooth"
               /\ log' = log
          ELSE /\ collection' = collection
               /\ pc' = "exit"
               /\ log' = log \cup {"pipeline_failed"}
    /\ UNCHANGED <<frequency, width, vertical, roi, video_dims, window,
                   smoothed_collection, gif, rendered, mp4, dates_ms, dates,
                   frames, ffmpeg, raised_in, returned>>

\* timelapse.py 71-90
Smooth ==
    /\ pc = "smooth"
    /\ window' = WindowPolicy(frequency)
    /\ smoothed_collection' = MapSmooth(collection, frequency)
    /\ calls' = calls \cup {"smooth"}
    /\ pc' = "render"
    /\ UNCHANGED <<frequency, width, vertical, roi, video_dims, collection,
                   gif, rendered, mp4, dates_ms, dates, frames, log, ffmpeg,
                   raised_in, returned>>

\* timelapse.py 97-123: download_ee_video writes out_gif, or reports a
\* backend error itself and writes nothing, or raises
Render ==
    /\ pc = "render"
    /\ calls' = calls \cup {"download_ee_video"}
    /\ \E outcome \in {"written", "nothing", "raise"} :
          CASE outcome = "written" ->
                  /\ \E pattern \in DurationPatterns :
                        gif' = RenderedGif(smoothed_collection, pattern)
                  /\ rendered' = gif'
                  /\ pc' = "overlay"
                  /\ log' = log
            [] outcome = "nothing" ->
                  /\ UNCHANGED <<gif, rendered>>
                  /\ pc' = "overlay"
                  /\ log' = log \cup {"download_error"}
            [] outcome = "raise" ->
                  /\ UNCHANGED <<gif, rendered>>
                  /\ pc' = "exit"
                  /\ log' = log \cup {"pipeline_failed"}
    /\ UNCHANGED <<frequency, width, vertical, roi, video_dims, collection,
                   window, smoothed_collection, mp4, dates_ms, dates, frames,
                   ffmpeg, raised_in, returned>>

\* timelapse.py 127-146 and 234-238: fetch the timestamps, derive the labels,
\* then either enter the frame loop or warn; an exception is caught at 237
OverlayDates ==
    /\ pc = "overlay"
    /\ calls' = calls \cup {"aggregate_array.getInfo"}
    /\ \E outcome \in {"ok", "getInfo", "label"} :
          IF outcome = "ok"
          THEN /\ \E ms \in BackendDates(collection) :
                     /\ dates_ms' = ms
                     /\ dates' = [i \in 1..Len(ms) |-> Label(ms[i], frequency)]
                     /\ IF Len(ms) > 0 /\ gif # NoFile
                        THEN pc' = "frames" /\ log' = log
                        ELSE pc' = "transcode" /\ log' = log \cup {"overlay_warning"}
               /\ raised_in' = raised_in
          ELSE /\ UNCHANGED <<dates_ms, dates>>
               /\ raised_in' = outcome
               /\ pc' = "transcode"
               /\ log' = log \cup {"overlay_failed"}
    /\ frames' = <<>>
    /\ UNCHANGED <<frequency, width, vertical, roi, video_dims, collection,
                   window, smoothed_collection, gif, rendered, mp4, ffmpeg,
                   returned>>

\* frame loop that writes each annotated frame back to out_gif as it goes
DrawFrameInPlace ==
    /\ pc = "frames"
    /\ Len(frames) < Len(gif)
    /\ LET i         == Len(frames) + 1
           text_year == IF i <= Len(dates) THEN dates[i] ELSE ""
           annotated == Annotate(gif[i], text_year, PlaceName)
       IN  /\ frames' = Append(frames, annotated)
           /\ gif' = [gif EXCEPT ![i] = annotated]
    /\ UNCHANGED <<pc, frequency, width, vertical, roi, video_dims, collection,
                   window, smoothed_collection, rendered, mp4, dates_ms,
                   dates, log, calls, ffmpeg, raised_in, returned>>

\* timelapse.py 151-223: one pass of the frame loop
DrawFrame ==
    /\ pc = "frames"
    /\ Len(frames) < Len(gif)
    /\ LET i         == Len(frames) + 1
           text_year == IF i <= Len(dates) THEN dates[i] ELSE ""
       IN  frames' = Append(frames, Annotate(gif[i], text_year, PlaceName))
    /\ UNCHANGED <<pc, frequency, width, vertical, roi, video_dims, collection,
                   window, smoothed_collection, gif, rendered, mp4, dates_ms,
                   dates, log, calls, ffmpeg, raised_in, returned>>

\* timelapse.py 151-223 with 237-238: drawing raises on the current frame
DrawRaise ==
    /\ pc = "frames"
    /\ Len(frames) < Len(gif)
    /\ raised_in' = "draw"
    /\ log' = log \cup {"overlay_failed"}
    /\ pc' = "transcode"
    /\ UNCHANGED <<frequency, width, vertical, roi, video_dims, collection,
                   window, smoothed_collection, gif, rendered, mp4, dates_ms,
                   dates, frames, calls, ffmpeg, returned>>

\* timelapse.py 226-232
SaveGif ==
    /\ pc = "frames"
    /\ Len(frames) = Len(gif)
    /\ gif' = SavedGif(frames, gif)
    /\ log' = log \cup {"overlay_saved"}
    /\ pc' = "transcode"
    /\ UNCHANGED <<frequency, width, vertical, roi, video_dims, collection,
                   window, smoothed_collection, rendered, mp4, dates_ms, dates,
                   frames, calls, ffmpeg, raised_in, returned>>

\* transcode stage without the shutil.which probe: ffmpeg is always run, and
\* a missing one shows up as a non-zero exit
TranscodeWithoutProbe ==
    /\ pc = "transcode"
    /\ IF gif # NoFile
       THEN \E found \in {"missing", "ok", "error"} :
               /\ ffmpeg' = found
               /\ calls' = calls \cup {"ffmpeg"}
               /\ CASE found = "missing" ->
                         /\ mp4' = mp4
                         /\ log' = log \cup {"saved", "ffmpeg_error"}
                    [] found = "ok" ->
                         /\ mp4' = "written"
                         /\ log' = log \cup {"saved", "mp4_saved"}
                    [] found = "error" ->
                         /\ mp4' \in {mp4, "partial"}
                         /\ log' = log \cup {"saved", "ffmpeg_error"}
       ELSE /\ log' = log \cup {"saved"}
            /\ UNCHANGED <<ffmpeg, mp4, calls>>
    /\ returned' = OutGif
    /\ pc' = "exit"
    /\ UNCHANGED <<frequency, width, vertical, roi, video_dims, collection,
                   window, smoothed_collection, gif, rendered, dates_ms, dates,
                   frames, raised_in>>

\* timelapse.py 240-255: a failing ffmpeg may or may not leave a file behind
Transcode ==
    /\ pc = "transcode"
    /\ IF gif # NoFile
       THEN \E found \in {"missing", "ok", "error"} :
               /\ ffmpeg' = found
               /\ CASE found = "missing" ->
                         /\ mp4' = mp4
                         /\ calls' = calls
                         /\ log' = log \cup {"saved", "ffmpeg_missing"}
                    [] found = "ok" ->
                         /\ mp4' = "written"
                         /\ calls' = calls \cup {"ffmpeg"}
                         /\ log' = log \cup {"saved", "mp4_saved"}
                    [] found = "error" ->
                         /\ mp4' \in {mp4, "partial"}
                         /\ calls' = calls \cup {"ffmpeg"}
                         /\ log' = log \cup {"saved", "ffmpeg_error"}
       ELSE /\ log' = log \cup {"saved"}
            /\ UNCHANGED <<ffmpeg, mp4, calls>>
    /\ returned' = OutGif
    /\ pc' = "exit"
    /\ UNCHANGED <<frequency, width, vertical, roi, video_dims, collection,
                   window, smoothed_collection, gif, rendered, dates_ms, dates,
                   frames, raised_in>>

Next ==
    \/ Geocode
    \/ Initialize
    \/ BuildRegion
    \/ Fetch
    \/ Smooth
    \/ Render
    \/ OverlayDates
    \/ DrawFrame
    \/ DrawRaise
    \/ SaveGif
    \/ Transcode

Spec == Init /\ [][Next]_vars

\* ================================================ Cadence Policy alone
\* generate_timelapse called directly: any frequency string, and one
\* timestamp (or null) as the backend may report it
SampleYears == {1999, 2000, 2020, 2021}

SampleDates ==
    {c \in [year : SampleYears, month : 1..12, day : {1, 15, 28, 29, 30, 31}] :
        c.day = 1 \/ c.day = 15 \/ c.day = DaysInMonth(c.year, c.month)}

InitPolicy ==
    /\ pc = "policy"
    /\ frequency \in AnyFrequencies
    /\ dates_ms \in {<<NoneVal>>}
                    \cup {<<DaysFromCivil(c.year, c.month, c.day)>> : c \in SampleDates}
    /\ width = 768
    /\ vertical = FALSE
    /\ roi = "unset"
    /\ video_dims = <<>>
    /\ collection = <<>>
    /\ window = NoWindow
    /\ smoothed_collection = <<>>
    /\ gif = NoFile
    /\ rendered = NoFile
    /\ mp4 = "absent"
    /\ dates = <<>>
    /\ frames = <<>>
    /\ log = {}
    /\ calls = {}
    /\ ffmpeg = "not_probed"
    /\ raised_in = "nowhere"
    /\ returned = NoPath

\* timelapse.py 71-78
SelectWindow ==
    /\ pc = "policy"
    /\ window' = WindowPolicy(frequency)
    /\ pc' = "policy_label"
    /\ UNCHANGED <<frequency, width, vertical, roi, video_dims, collection,
                   smoothed_collection, gif, rendered, mp4, dates_ms, dates,
                   frames, log, calls, ffmpeg, raised_in, returned>>

\* timelapse.py 132-144
DeriveLabels ==
    /\ pc = "policy_label"
    /\ dates' = [i \in 1..Len(dates_ms) |-> Label(dates_ms[i], frequency)]
    /\ pc' = "policy_done"
    /\ UNCHANGED <<frequency, width, vertical, roi, video_dims, collection,
                   window, smoothed_collection, gif, rendered, mp4, dates_ms,
                   frames, log, calls, ffmpeg, raised_in, returned>>

NextPolicy == SelectWindow \/ DeriveLabels

SpecPolicy == InitPolicy /\ [][NextPolicy]_vars

\* ============================================================== claims
Range(s) == {s[i] : i \in 1..Len(s)}

Abs(x) == IF x < 0 THEN 0 - x ELSE x

\* calendar month number of a timestamp
MonthIndex(t) == CivilFromDays(t).year * 12 + CivilFromDays(t).month - 1

\* the half-window the specification gives each cadence, in months
HalfWindowMonths(freq) ==
    IF freq = "quarter" THEN 4 ELSE IF freq = "month" THEN 2 ELSE 12

\* composites of the original sequence within the closed window around t
ClosedWindow(t, freq) ==
    {u \in Range(collection) :
        Abs(MonthIndex(u) - MonthIndex(t)) <= HalfWindowMonths(freq)}

Smoothed == "smooth" \in calls

\* C1: each smoothed frame is the median of exactly the composites whose
\* timestamp lies within half_window of its own, both ends included.
C1_ClosedWindowMedian ==
    Smoothed =>
        \A i \in 1..Len(smoothed_collection) :
            Range(smoothed_collection[i].median_of)
                = ClosedWindow(collection[i], frequency)

\* an interior index whose closed window lies wholly inside the sequence
FullInterior(i) ==
    /\ 1 < i /\ i < Len(collection)
    /\ MonthIndex(collection[i]) - HalfWindowMonths(frequency)
          >= MonthIndex(collection[1])
    /\ MonthIndex(collection[i]) + HalfWindowMonths(frequency)
          <= MonthIndex(collection[Len(collection)])

\* C2: the first and the last frame are medians of strictly fewer composites
\* than an interior frame, for every cadence.
C2_EdgesTruncated ==
    Smoothed =>
        \A i \in 1..Len(collection) :
            FullInterior(i) =>
                /\ Len(smoothed_collection[1].median_of)
                      < Len(smoothed_collection[i].median_of)
                /\ Len(smoothed_collection[Len(collection)].median_of)
                      < Len(smoothed_collection[i].median_of)

\* C3: smoothing keeps the length, and frame i carries the timestamp of
\* composite i, so the sequence stays strictly increasing.
C3_IdentityPreserved ==
    Smoothed =>
        /\ Len(smoothed_collection) = Len(collection)
        /\ \A i \in 1..Len(collection) :
              smoothed_collection[i].time_start = collection[i]
        /\ \A i \in 1..(Len(smoothed_collection) - 1) :
              smoothed_collection[i].time_start
                  < smoothed_collection[i + 1].time_start

C3_Witness ==
    /\ pc = "render"
    /\ Len(collection) >= 3
    /\ Len(smoothed_collection[2].median_of) >= 2
    /\ smoothed_collection[2].time_start = collection[2]

MonthText ==
    <<"01", "02", "03", "04", "05", "06", "07", "08", "09", "10", "11", "12">>

QuarterOf == <<1, 1, 1, 2, 2, 2, 3, 3, 3, 4, 4, 4>>

YearFormat(c) == ToString(c.year)

QuarterFormat(c) == ToString(c.year) \o " Q" \o ToString(QuarterOf[c.month])

MonthFormat(c) == ToString(c.year) \o "-" \o MonthText[c.month]

\* C4: the label of a timestamp on calendar date (Y, M) is "Y", "Y Qn" or
\* "Y-MM" under year, quarter, month; 2020-07-15 gives "2020", "2020 Q3",
\* "2020-07"; a null timestamp gives "" under every cadence.
C4_LabelDerivation ==
    pc = "policy_done" =>
        /\ Len(dates) = Len(dates_ms)
        /\ dates_ms[1] = NoneVal => dates[1] = ""
        /\ \A c \in SampleDates :
              dates_ms[1] = DaysFromCivil(c.year, c.month, c.day) =>
                  /\ frequency = "year" => dates[1] = YearFormat(c)
                  /\ frequency = "quarter" => dates[1] = QuarterFormat(c)
                  /\ frequency = "month" => dates[1] = MonthFormat(c)
        /\ dates_ms[1] = 18458 =>
              /\ frequency = "year" => dates[1] = "2020"
              /\ frequency = "quarter" => dates[1] = "2020 Q3"
              /\ frequency = "month" => dates[1] = "2020-07"

C4_Witness ==
    /\ pc = "policy_done"
    /\ frequency = "quarter"
    /\ dates_ms = <<18458>>
    /\ dates = <<"2020 Q3">>

RegionBuilt == roi # "unset"

\* h is a / b rounded to the nearest integer (b odd: no ties)
IsRounded(h, a, b) == 2 * Abs(b * h - a) <= b

\* h is a / b with the fraction dropped
IsTruncated(h, a, b) ==
    IF a >= 0 THEN b * h <= a /\ a < b * (h + 1)
              ELSE b * h >= a /\ a > b * (h - 1)

\* C5 as stated: standard mode uses the single width; vertical mode uses
\* [720, 1280] when the region computation succeeds and otherwise
\* [width, round(width * 16/9)] with the standard-aspect region.
C5_DimsRounded ==
    RegionBuilt =>
        /\ ~vertical => video_dims = <<width>> /\ roi = "standard"
        /\ vertical /\ "vertical_roi_error" \notin log =>
              video_dims = <<720, 1280>> /\ roi = "vertical"
        /\ vertical /\ "vertical_roi_error" \in log =>
              /\ roi = "standard"
              /\ Len(video_dims) = 2
              /\ video_dims[1] = width
              /\ IsRounded(video_dims[2], 16 * width, 9)

\* C5 amended: as above, but the fallback height is width * 16/9 truncated
\* toward zero, not rounded.
C5_DimsTruncated ==
    RegionBuilt =>
        /\ ~vertical => video_dims = <<width>> /\ roi = "standard"
        /\ vertical /\ "vertical_roi_error" \notin log =>
              video_dims = <<720, 1280>> /\ roi = "vertical"
        /\ vertical /\ "vertical_roi_error" \in log =>
              /\ roi = "standard"
              /\ Len(video_dims) = 2
              /\ video_dims[1] = width
              /\ IsTruncated(video_dims[2], 16 * width, 9)

C5_Witness ==
    /\ vertical
    /\ "vertical_roi_error" \in log
    /\ width = 100
    /\ video_dims = <<100, 177>>
    /\ roi = "standard"

LaterStages ==
    {"bounds.getInfo", "landsat_timeseries", "smooth", "download_ee_video",
     "aggregate_array.getInfo", "ffmpeg"}

NothingWritten ==
    /\ gif = NoFile
    /\ rendered = NoFile
    /\ mp4 \in {"absent", "stale"}

\* C6: after a geocoding failure no backend call at all has been made, after
\* a backend-initialisation failure none but the initialisation; in both
\* cases the run is over, no later stage ran and no artifact was written.
C6_AbortStopsRun ==
    /\ "geocode_failed" \in log =>
          /\ pc = "exit"
          /\ calls = {}
          /\ NothingWritten
          /\ returned = NoPath
    /\ "ee_init_failed" \in log =>
          /\ pc = "exit"
          /\ calls \cap LaterStages = {}
          /\ NothingWritten
          /\ returned = NoPath

C6_Witness ==
    /\ pc = "exit"
    /\ "geocode_failed" \in log
    /\ calls = {}

\* C7: when label derivation or drawing raises, the file the render stage
\* wrote is untouched, the failure is not escalated, and the run goes on to
\* the transcode stage and returns the primary artifact path.
C7_OverlayFailureKeepsPrimary ==
    "overlay_failed" \in log =>
        /\ gif = rendered
        /\ pc \in {"transcode", "exit"}
        /\ "pipeline_failed" \notin log
        /\ pc = "exit" => returned = OutGif /\ "saved" \in log

C7_Witness ==
    /\ pc = "exit"
    /\ raised_in = "draw"
    /\ Len(frames) >= 1
    /\ Len(frames) < Len(gif)
    /\ gif = rendered
    /\ returned = OutGif

PrimaryProduced == pc = "exit" /\ gif # NoFile

\* C8 as stated: after a run that produced the primary artifact, the MP4 is
\* present exactly when a transcoder is available; nothing is escalated and
\* the primary path is returned.
C8_Mp4IffTranscoder ==
    PrimaryProduced =>
        /\ (mp4 # "absent") <=> (ffmpeg \in {"ok", "error"})
        /\ "pipeline_failed" \notin log
        /\ returned = OutGif

\* C8 amended: the MP4 is present after the run whenever a transcoder is
\* available and exits zero; without a transcoder none is run and the MP4
\* path is left as it was; a missing transcoder and a non-zero exit are
\* logged, never escalated, and the primary path is returned.
C8_Mp4WhenTranscodeSucceeds ==
    PrimaryProduced =>
        /\ ffmpeg \in {"missing", "ok", "error"}
        /\ ffmpeg = "ok" => mp4 = "written"
        /\ ffmpeg = "missing" =>
              /\ mp4 \in {"absent", "stale"}
              /\ "ffmpeg" \notin calls
              /\ "ffmpeg_missing" \in log
        /\ ffmpeg = "error" => "ffmpeg_error" \in log
        /\ "pipeline_failed" \notin log
        /\ returned = OutGif

C8_Witness ==
    /\ PrimaryProduced
    /\ ffmpeg = "error"
    /\ mp4 = "absent"
    /\ "ffmpeg_error" \in log
    /\ returned = OutGif

\* C9: a successful overlay rewrites the artifact with the same frames in
\* the same order, each with the display duration it had before.
C9_DurationsPreserved ==
    "overlay_saved" \in log =>
        /\ Len(gif) = Len(rendered)
        /\ \A i \in 1..Len(gif) :
              /\ gif[i].src = rendered[i].src
              /\ gif[i].duration = rendered[i].duration

\* the date the one sampled timestamp stands for
SampledDate ==
    CHOOSE c \in SampleDates :
        dates_ms[1] = DaysFromCivil(c.year, c.month, c.day)

\* C10: year, quarter, month give half-windows of 1 year, 4 months, 2 months
\* with their own label formats; any other frequency gets the Year policy,
\* half-window 1 year and labels "YYYY".
C10_UnknownCadenceIsYear ==
    pc = "policy_done" =>
        /\ frequency = "quarter" => window = [window_size |-> 4, unit |-> "month"]
        /\ frequency = "month" => window = [window_size |-> 2, unit |-> "month"]
        /\ frequency \notin {"quarter", "month"} =>
              window = [window_size |-> 1, unit |-> "year"]
        /\ dates_ms[1] # NoneVal =>
              /\ frequency = "quarter" => dates[1] = QuarterFormat(SampledDate)
              /\ frequency = "month" => dates[1] = MonthFormat(SampledDate)
              /\ frequency \notin {"quarter", "month"} =>
                    dates[1] = YearFormat(SampledDate)

====
